---- MODULE Spec2Model ----
(***************************************************************************)
(* Model of issho.Issho (src/issho/issho.py): one session over an SSH      *)
(* connection, its construction, exec, get/put with optional HDFS staging, *)
(* hive and spark_submit.                                                  *)
(*                                                                         *)
(* Text is modelled as a sequence of tokens (strings): a path such as      *)
(* "/d/x" is <<"/", "d", "/", "x">>, a line of output is <<"o1", "\n">>.  *)
(* A command is the sequence of its words, each word a token sequence.     *)
(***************************************************************************)
EXTENDS Integers, Sequences, FiniteSets, TLC

VARIABLES
    state,            \* lifecycle of the session under construction
    trace,            \* history of the lifecycle states entered
    kinit,            \* the kinit argument of __init__
    secret,           \* what keyring.get_password returns for the profile
    ssh,              \* self._ssh is set (paramiko client connected)
    remote_home_dir,  \* self._remote_home_dir
    pc,               \* position of the caller / of __init__
    call,             \* the top-level call in progress or last finished
    xf,               \* frame of the running get/put
    hv,               \* frame of the running hive
    events,           \* remote-visible events of the current top-level call
    openSftp,         \* number of SFTP channels currently open
    out,              \* what was printed to the caller's stdout in this call
    errW,             \* what was written to sys.stderr in this call
    ret,              \* value the caller's exec call returned
    err,              \* exception raised by the current call, "none" if none
    clock             \* last value returned by time.time()

vars == <<state, trace, kinit, secret, ssh, remote_home_dir, pc, call, xf, hv,
          events, openSftp, out, errW, ret, err, clock>>

----------------------------------------------------------------------------
(* Bounds *)

MaxLines == 2   \* lines per output stream of one remote command
MaxTime == 1    \* largest timestamp time.time() returns

----------------------------------------------------------------------------
(* Values *)

None == <<"<None>">>
Empty == <<>>

RECURSIVE Flatten(_)
Flatten(ss) == IF ss = <<>> THEN <<>> ELSE Head(ss) \o Flatten(Tail(ss))

SeqsUpTo(S, n) == UNION {[1..k -> S] : k \in 0..n}

\* Python truthiness of a str-or-None value
Truthy(v) == v # None /\ v # Empty

StdoutLines == {<<"o1", "\n">>, <<"o2", "\n">>}
StderrLines == {<<"e1", "\n">>}
HomeLine == <<"/", "home", "r", "\n">>
LocalHome == <<"/", "home", "l">>

\* what the remote does with one command: the transport fails, or the
\* command runs and produces lines on its two streams
Replies ==
    {[fail |-> TRUE, stdout |-> <<>>, stderr |-> <<>>]} \cup
    [fail : {FALSE}, stdout : SeqsUpTo(StdoutLines, MaxLines),
     stderr : SeqsUpTo(StderrLines, MaxLines)]

HomeReplies ==
    {[fail |-> TRUE, stdout |-> <<>>, stderr |-> <<>>]} \cup
    [fail : {FALSE}, stdout : {<<HomeLine>>},
     stderr : SeqsUpTo(StderrLines, MaxLines)]

Secrets == {None, Empty, <<"pw">>}

Whitespace == {"\n", " "}

RECURSIVE LStrip(_)
LStrip(s) == IF s # <<>> /\ Head(s) \in Whitespace THEN LStrip(Tail(s)) ELSE s

RECURSIVE RStrip(_)
RStrip(s) ==
    IF s # <<>> /\ s[Len(s)] \in Whitespace
    THEN RStrip(SubSeq(s, 1, Len(s) - 1)) ELSE s

Strip(s) == RStrip(LStrip(s))

\* str.replace(old, new) where old is one token and new a token sequence
RECURSIVE Replace(_, _, _)
Replace(s, old, new) ==
    IF s = <<>> THEN <<>>
    ELSE (IF Head(s) = old THEN new ELSE <<Head(s)>>)
         \o Replace(Tail(s), old, new)

----------------------------------------------------------------------------
(* Path and command helpers *)

\* str.startswith("hdfs")
StartsWithHdfs(p) == Len(p) > 0 /\ p[1] = "hdfs:"

RECURSIVE PathName(_)
\* pathlib.Path(p).name: the tokens after the last "/"
PathName(p) ==
    IF p = <<>> THEN <<>>
    ELSE IF p[Len(p)] = "/" THEN <<>>
    ELSE PathName(SubSeq(p, 1, Len(p) - 1)) \o <<p[Len(p)]>>

\* issho.helpers.default_sftp_path
default_sftp_path(this_path, default_path) ==
    IF Truthy(this_path) THEN this_path ELSE PathName(default_path)

\* pathlib.Path.expanduser: a leading "~" becomes the local home directory
expanduser(p) ==
    IF Len(p) > 0 /\ p[1] = "~" THEN LocalHome \o Tail(p) ELSE p

\* Issho._sftp_paths
sftp_paths(localpath, remotepath, home) ==
    LET l == default_sftp_path(localpath, remotepath)
        r == default_sftp_path(remotepath, l)
    IN  [localpath |-> expanduser(l), remotepath |-> Replace(r, "~", home)]

\* issho.helpers.add_arguments_to_cmd: the words of cmd followed by the
\* arguments, in call order
add_arguments_to_cmd(cmd, args) == cmd \o args

\* the bg wrapper of exec: every double quote of the command is escaped
EscapeWord(w) == Replace(w, "\"", <<"\\\"">>)

BgWrap(cmd) ==
    << <<"cmd=$\"">> >> \o [i \in 1..Len(cmd) |-> EscapeWord(cmd[i])]
    \o << <<"\"; nohup bash -c \"$cmd\" &">> >>

\* the command string exec hands to exec_command
ExecCommand(cmd, args, bg) ==
    LET c == add_arguments_to_cmd(cmd, args) IN IF bg THEN BgWrap(c) ELSE c

\* Issho.hadoop: "-" followed by the command without its leading dashes
RECURSIVE StripDashes(_)
StripDashes(w) ==
    IF w # <<>> /\ Head(w) = "-" THEN StripDashes(Tail(w)) ELSE w

HadoopCommand(command, args) ==
    ExecCommand(<< <<"hadoop fs">> >>, << <<"-">> \o StripDashes(command) >> \o args, FALSE)

TimeTok(t) == ToString(t)

----------------------------------------------------------------------------
(* Events *)

ExecEvent(cmd, reply) ==
    [kind |-> "exec", cmd |-> cmd, localpath |-> <<>>, remotepath |-> <<>>,
     ok |-> ~reply.fail]

SftpEvent(kind, localpath, remotepath, ok) ==
    [kind |-> kind, cmd |-> <<>>, localpath |-> localpath,
     remotepath |-> remotepath, ok |-> ok]

\* value returned by exec (lines 99-102, 108)
ExecReturn_merged(capture_output, reply) ==
    IF capture_output THEN Flatten(reply.stdout \o reply.stderr) ELSE <<>>

ExecReturn(capture_output, reply) ==
    IF capture_output THEN Flatten(reply.stdout) ELSE <<>>

\* what exec prints to the caller's stdout (lines 100-104)
ExecPrinted(capture_output, reply) ==
    IF capture_output THEN <<>> ELSE Flatten(reply.stdout)

\* what exec writes to sys.stderr (lines 106-107)
ExecStderr(reply) == Flatten(reply.stderr)

\* the effect of one exec on the event log and the caller's channels;
\* exec_command raising leaves the channels untouched
ExecEffects(cmd, capture_output, reply) ==
    /\ events' = Append(events, ExecEvent(cmd, reply))
    /\ out' = IF reply.fail THEN out ELSE out \o ExecPrinted(capture_output, reply)
    /\ errW' = IF reply.fail THEN errW ELSE errW \o ExecStderr(reply)

NoXfer ==
    [fn |-> "none", pc |-> "none", localpath |-> None, remotepath |-> None,
     hadoopArg |-> FALSE, hadoop |-> FALSE,
     paths |-> [localpath |-> <<>>, remotepath |-> <<>>],
     tmp_path |-> <<>>, failed |-> FALSE]

NoHive ==
    [pc |-> "none", query |-> <<>>, output_filename |-> None,
     remove_blank_top_line |-> FALSE, tmp_filename |-> <<>>]

NoCall == [op |-> "none"]

----------------------------------------------------------------------------
(* Construction: Issho.__init__ *)

Init ==
    /\ state = "Unconnected"
    /\ trace = <<"Unconnected">>
    /\ kinit \in BOOLEAN
    /\ secret \in Secrets
    /\ ssh = FALSE
    /\ remote_home_dir = <<>>
    /\ pc = "init_connect"
    /\ call = [op |-> "__init__"]
    /\ xf = NoXfer
    /\ hv = NoHive
    /\ events = <<>>
    /\ openSftp = 0
    /\ out = <<>>
    /\ errW = <<>>
    /\ ret = <<>>
    /\ err = "none"
    /\ clock = 0

Enter(s) == state' = s /\ trace' = Append(trace, s)

Raise(e) == err' = e

\* line 38 of __init__: the step that follows _connect
AfterConnect_nokinit(k) == "init_home"

AfterConnect(k) == IF k THEN "init_kinit" ELSE "init_home"

\* line 37: self._ssh = self._connect()
Connect ==
    /\ pc = "init_connect"
    /\ \E ok \in BOOLEAN :
        IF ok
        THEN /\ ssh' = TRUE
             /\ Enter("Connected")
             /\ pc' = AfterConnect(kinit)
             /\ UNCHANGED err
        ELSE /\ Raise("SSHException")
             /\ pc' = "failed"
             /\ UNCHANGED <<ssh, state, trace>>
    /\ UNCHANGED <<kinit, secret, remote_home_dir, call, xf, hv, events,
                   openSftp, out, errW, ret, clock>>

\* line 181 of kinit: if kinit_pw
HasPassword_always(pw) == TRUE

HasPassword(pw) == Truthy(pw)

KinitCmd(pw) == << <<"echo">>, pw, <<"| kinit">> >>

\* lines 38-39 and Issho.kinit
Kinit ==
    /\ pc = "init_kinit"
    /\ IF HasPassword(secret)
       THEN \E reply \in Replies :
            /\ ExecEffects(KinitCmd(secret), FALSE, reply)
            /\ UNCHANGED ret
            /\ IF reply.fail
               THEN /\ Raise("SSHException")
                    /\ pc' = "failed"
                    /\ UNCHANGED <<state, trace>>
               ELSE /\ Enter("Authenticated")
                    /\ pc' = "init_home"
                    /\ UNCHANGED err
       ELSE /\ Raise("OSError")
            /\ pc' = "failed"
            /\ UNCHANGED <<state, trace, events, out, errW, ret>>
    /\ UNCHANGED <<kinit, secret, ssh, remote_home_dir, call, xf, hv,
                   openSftp, clock>>

HomeCmd == << <<"echo $HOME">> >>

\* lines 40-41: the home directory query, then the constructor returns
HomeDir ==
    /\ pc = "init_home"
    /\ \E reply \in HomeReplies :
        /\ ExecEffects(HomeCmd, TRUE, reply)
        /\ UNCHANGED ret
        /\ IF reply.fail
           THEN /\ Raise("SSHException")
                /\ pc' = "failed"
                /\ UNCHANGED <<state, trace, remote_home_dir>>
           ELSE /\ remote_home_dir' = Strip(ExecReturn(TRUE, reply))
                /\ Enter("Ready")
                /\ pc' = "constructed"
                /\ UNCHANGED err
    /\ UNCHANGED <<kinit, secret, ssh, call, xf, hv, openSftp, clock>>

----------------------------------------------------------------------------
(* Inputs of the calls *)

RemotePaths ==
    {<<"/", "d", "/", "x">>, <<"~", "/", "x">>, <<"hdfs:", "/", "d", "/", "x">>,
     <<"x">>}

LocalPaths == {<<"a", "/", "b">>, <<"~", "/", "b">>, <<"b">>}

Cmds == {<< <<"ls">> >>, << <<"echo">>, <<"\"", "hi", "\"">> >>}

ArgLists == {<<>>, << <<"-la">>, <<"/", "tmp">> >>}

\* what every top-level call starts from
StartCall(c) ==
    /\ pc = "idle"
    /\ call' = c
    /\ events' = <<>>
    /\ out' = <<>>
    /\ errW' = <<>>
    /\ ret' = <<>>
    /\ err' = "none"

----------------------------------------------------------------------------
(* Issho.exec, called by the caller *)

\* lines 94-96: print(args); print(cmd)
DebugPrinted(debug, args, cmd) ==
    IF debug THEN Flatten(args) \o <<"\n">> \o Flatten(cmd) \o <<"\n">> ELSE <<>>

CallExec ==
    /\ pc = "idle"
    /\ \E cmd \in Cmds, args \in ArgLists, bg \in BOOLEAN, debug \in BOOLEAN,
          capture_output \in BOOLEAN, reply \in Replies :
        LET full == ExecCommand(cmd, args, bg) IN
        /\ call' = [op |-> "exec", cmd |-> cmd, args |-> args, bg |-> bg,
                    debug |-> debug, capture_output |-> capture_output,
                    reply |-> reply]
        /\ events' = <<ExecEvent(full, reply)>>
        /\ out' = DebugPrinted(debug, args, full)
                  \o (IF reply.fail THEN <<>>
                      ELSE ExecPrinted(capture_output, reply))
        /\ errW' = IF reply.fail THEN <<>> ELSE ExecStderr(reply)
        /\ ret' = IF reply.fail THEN <<>> ELSE ExecReturn(capture_output, reply)
        /\ err' = IF reply.fail THEN "SSHException" ELSE "none"
    /\ pc' = "in_exec"
    /\ UNCHANGED <<state, trace, kinit, secret, ssh, remote_home_dir, xf, hv,
                   openSftp, clock>>

----------------------------------------------------------------------------
(* Issho.get and Issho.put *)

Frame(fn, localpath, remotepath, hadoop) ==
    [NoXfer EXCEPT !.fn = fn, !.pc = "resolve", !.localpath = localpath,
                   !.remotepath = remotepath, !.hadoopArg = hadoop]

\* "/tmp/{}_{}".format(name.replace("/", "_"), time.time())
TmpPath(name, t) ==
    <<"/", "tmp", "/">> \o Replace(name, "/", <<"_">>) \o <<"_", TimeTok(t)>>

CallGet ==
    /\ \E remotepath \in RemotePaths, localpath \in LocalPaths \cup {None},
          hadoop \in BOOLEAN :
        /\ StartCall([op |-> "get", localpath |-> localpath,
                      remotepath |-> remotepath, hadoop |-> hadoop])
        /\ xf' = Frame("get", localpath, remotepath, hadoop)
    /\ pc' = "in_get"
    /\ UNCHANGED <<state, trace, kinit, secret, ssh, remote_home_dir, hv,
                   openSftp, clock>>

CallPut ==
    /\ \E localpath \in LocalPaths, remotepath \in RemotePaths \cup {None},
          hadoop \in BOOLEAN :
        /\ StartCall([op |-> "put", localpath |-> localpath,
                      remotepath |-> remotepath, hadoop |-> hadoop])
        /\ xf' = Frame("put", localpath, remotepath, hadoop)
    /\ pc' = "in_put"
    /\ UNCHANGED <<state, trace, kinit, secret, ssh, remote_home_dir, hv,
                   openSftp, clock>>

\* lines 132-133 of get
GetResolve ==
    /\ xf.fn = "get" /\ xf.pc = "resolve"
    /\ LET hadoop == xf.hadoopArg \/ StartsWithHdfs(xf.remotepath) IN
        xf' = [xf EXCEPT !.hadoop = hadoop,
                         !.paths = sftp_paths(xf.localpath, xf.remotepath,
                                              remote_home_dir),
                         !.pc = IF hadoop THEN "bridge" ELSE "open"]
    /\ UNCHANGED <<state, trace, kinit, secret, ssh, remote_home_dir, pc, call,
                   hv, events, openSftp, out, errW, ret, err, clock>>

\* lines 134-139 of get: the temporary path and the hadoop fs -get -f
GetBridge ==
    /\ xf.fn = "get" /\ xf.pc = "bridge"
    /\ \E t \in clock..MaxTime, reply \in Replies :
        LET tmp_path == TmpPath(xf.paths.localpath, t) IN
        /\ clock' = t
        /\ ExecEffects(HadoopCommand(<<"get -f">>, <<xf.remotepath, tmp_path>>),
                       FALSE, reply)
        /\ UNCHANGED ret
        /\ IF reply.fail
           THEN /\ Raise("SSHException")
                /\ xf' = [xf EXCEPT !.tmp_path = tmp_path, !.pc = "raise"]
           ELSE /\ UNCHANGED err
                /\ xf' = [xf EXCEPT !.tmp_path = tmp_path,
                                    !.paths.remotepath = tmp_path,
                                    !.pc = "open"]
    /\ UNCHANGED <<state, trace, kinit, secret, ssh, remote_home_dir, pc, call,
                   hv, openSftp>>

\* lines 140 and 165: with self._ssh.open_sftp() as sftp
XferOpen ==
    /\ xf.pc = "open"
    /\ \E ok \in BOOLEAN :
        IF ok
        THEN /\ openSftp' = openSftp + 1
             /\ xf' = [xf EXCEPT !.pc = "transfer"]
             /\ UNCHANGED err
        ELSE /\ Raise("SSHException")
             /\ xf' = [xf EXCEPT !.pc = "raise"]
             /\ UNCHANGED openSftp
    /\ UNCHANGED <<state, trace, kinit, secret, ssh, remote_home_dir, pc, call,
                   hv, events, out, errW, ret, clock>>

\* lines 141-145 of get: sftp.get
GetTransfer ==
    /\ xf.fn = "get" /\ xf.pc = "transfer"
    /\ \E ok \in BOOLEAN :
        /\ events' = Append(events, SftpEvent("sftp_get", xf.paths.localpath,
                                              xf.paths.remotepath, ok))
        /\ xf' = [xf EXCEPT !.failed = ~ok, !.pc = "close"]
    /\ UNCHANGED <<state, trace, kinit, secret, ssh, remote_home_dir, pc, call,
                   hv, openSftp, out, errW, ret, err, clock>>

\* lines 166-170 of put: sftp.put
PutTransfer ==
    /\ xf.fn = "put" /\ xf.pc = "transfer"
    /\ \E ok \in BOOLEAN :
        /\ events' = Append(events, SftpEvent("sftp_put", xf.paths.localpath,
                                              xf.paths.remotepath, ok))
        /\ xf' = [xf EXCEPT !.failed = ~ok, !.pc = "close"]
    /\ UNCHANGED <<state, trace, kinit, secret, ssh, remote_home_dir, pc, call,
                   hv, openSftp, out, errW, ret, err, clock>>

\* the exit of the with block: the channel is closed whether or not the
\* transfer raised
SftpExit_onsuccess(n, failed) == IF failed THEN n ELSE n - 1

SftpExit(n, failed) == n - 1

\* lines 146 of get: what follows the with block
GetAfterWith_finally(hadoop, failed) ==
    IF hadoop THEN "cleanup" ELSE IF failed THEN "raise" ELSE "return"

GetAfterWith(hadoop, failed) ==
    IF failed THEN "raise" ELSE IF hadoop THEN "cleanup" ELSE "return"

\* lines 171 of put: what follows the with block
PutAfterWith_finally(hadoop, failed) ==
    IF hadoop THEN "put_bridge" ELSE IF failed THEN "raise" ELSE "return"

PutAfterWith(hadoop, failed) ==
    IF failed THEN "raise" ELSE IF hadoop THEN "put_bridge" ELSE "return"

XferClose ==
    /\ xf.pc = "close"
    /\ openSftp' = SftpExit(openSftp, xf.failed)
    /\ xf' = [xf EXCEPT !.pc = IF xf.fn = "get"
                               THEN GetAfterWith(xf.hadoop, xf.failed)
                               ELSE PutAfterWith(xf.hadoop, xf.failed)]
    /\ err' = IF xf.failed THEN "IOError" ELSE err
    /\ UNCHANGED <<state, trace, kinit, secret, ssh, remote_home_dir, pc, call,
                   hv, events, out, errW, ret, clock>>

\* the argument of the rm of lines 147 and 173
RmTarget_remotepath(paths, remotepath) == remotepath

RmTarget(paths, remotepath) == paths.remotepath

RmCommand(target) == ExecCommand(<< <<"rm">> >>, <<target>>, FALSE)

\* lines 146-148 of get
GetCleanup ==
    /\ xf.fn = "get" /\ xf.pc = "cleanup"
    /\ \E reply \in Replies :
        /\ ExecEffects(RmCommand(RmTarget(xf.paths, xf.remotepath)), FALSE, reply)
        /\ UNCHANGED ret
        /\ err' = IF reply.fail THEN "SSHException" ELSE err
        /\ xf' = [xf EXCEPT !.pc = IF reply.fail THEN "raise" ELSE "return"]
    /\ UNCHANGED <<state, trace, kinit, secret, ssh, remote_home_dir, pc, call,
                   hv, openSftp, clock>>

\* line 160 of put: hadoop or remotepath.startswith("hdfs") raises when the
\* flag is false and remotepath is None
PutPrefixRaises(hadoopArg, remotepath) == ~hadoopArg /\ remotepath = None

\* lines 160-164 of put
PutResolve ==
    /\ xf.fn = "put" /\ xf.pc = "resolve"
    /\ IF PutPrefixRaises(xf.hadoopArg, xf.remotepath)
       THEN /\ Raise("AttributeError")
            /\ xf' = [xf EXCEPT !.pc = "raise"]
            /\ UNCHANGED clock
       ELSE LET hadoop == xf.hadoopArg \/ StartsWithHdfs(xf.remotepath)
                paths == sftp_paths(xf.localpath, xf.remotepath, remote_home_dir)
            IN  /\ UNCHANGED err
                /\ IF hadoop
                   THEN \E t \in clock..MaxTime :
                        LET tmp_path == TmpPath(xf.localpath, t) IN
                        /\ clock' = t
                        /\ xf' = [xf EXCEPT !.hadoop = hadoop,
                                      !.tmp_path = tmp_path,
                                      !.paths = [paths EXCEPT !.remotepath = tmp_path],
                                      !.pc = "open"]
                   ELSE /\ UNCHANGED clock
                        /\ xf' = [xf EXCEPT !.hadoop = hadoop, !.paths = paths,
                                            !.pc = "open"]
    /\ UNCHANGED <<state, trace, kinit, secret, ssh, remote_home_dir, pc, call,
                   hv, events, openSftp, out, errW, ret>>

\* line 172 of put: hadoop fs -put <tmp> <remotepath>
PutBridge ==
    /\ xf.fn = "put" /\ xf.pc = "put_bridge"
    /\ \E reply \in Replies :
        /\ ExecEffects(HadoopCommand(<<"put">>, <<xf.paths.remotepath, xf.remotepath>>),
                       FALSE, reply)
        /\ UNCHANGED ret
        /\ err' = IF reply.fail THEN "SSHException" ELSE err
        /\ xf' = [xf EXCEPT !.pc = IF reply.fail THEN "raise" ELSE "cleanup"]
    /\ UNCHANGED <<state, trace, kinit, secret, ssh, remote_home_dir, pc, call,
                   hv, openSftp, clock>>

\* lines 173-174 of put
PutCleanup ==
    /\ xf.fn = "put" /\ xf.pc = "cleanup"
    /\ \E reply \in Replies :
        /\ ExecEffects(RmCommand(RmTarget(xf.paths, xf.remotepath)), FALSE, reply)
        /\ UNCHANGED ret
        /\ err' = IF reply.fail THEN "SSHException" ELSE err
        /\ xf' = [xf EXCEPT !.pc = IF reply.fail THEN "raise" ELSE "return"]
    /\ UNCHANGED <<state, trace, kinit, secret, ssh, remote_home_dir, pc, call,
                   hv, openSftp, clock>>

----------------------------------------------------------------------------
(* Issho.hive *)

Queries == {<<"select", " ", "1">>, <<"q", ".", "sql">>, <<"q", ".", "hql">>}

OutputPaths == {<<"out", ".", "csv">>}

\* line 205: query.endswith("sql") or query.endswith("hql")
IsQueryFile(query) ==
    Len(query) > 0 /\ query[Len(query)] \in {"sql", "hql"}

\* line 204
TmpFilename(t) == <<"/", "tmp", "/", "issho_", TimeTok(t), ".", "sql">>

\* line 212
TmpOutputFilename(tmp_filename) == tmp_filename \o <<".", "output">>

\* line 222
HiveRemoveFirstLine(remove_blank_top_line) ==
    IF remove_blank_top_line THEN << <<"| sed 1d">> >> ELSE <<>>

\* lines 223-225: the redirection clause of the command
HiveRedirect_always(output_filename, tmp_output_filename) ==
    << <<">", " ">> \o tmp_output_filename >>

HiveRedirect(output_filename, tmp_output_filename) ==
    IF Truthy(output_filename)
    THEN << <<">", " ">> \o tmp_output_filename >> ELSE <<>>

\* lines 214-226
HiveCmd(tmp_filename, remove_blank_top_line, output_filename) ==
    << <<"beeline">>, <<"HIVE_OPTS">>, <<"-u">>, <<"\"", "HIVE_JDBC", "\"">>,
       <<"-f">>, tmp_filename >>
    \o HiveRemoveFirstLine(remove_blank_top_line)
    \o HiveRedirect(output_filename, TmpOutputFilename(tmp_filename))

\* line 230: if output_filename
HiveDownloads(output_filename) == Truthy(output_filename)

CallHive ==
    /\ \E query \in Queries, output_filename \in {None, Empty} \cup OutputPaths,
          remove_blank_top_line \in BOOLEAN :
        /\ StartCall([op |-> "hive", query |-> query,
                      output_filename |-> output_filename,
                      remove_blank_top_line |-> remove_blank_top_line])
        /\ hv' = [NoHive EXCEPT !.pc = "prepare", !.query = query,
                                !.output_filename = output_filename,
                                !.remove_blank_top_line = remove_blank_top_line]
    /\ pc' = "in_hive"
    /\ xf' = NoXfer
    /\ UNCHANGED <<state, trace, kinit, secret, ssh, remote_home_dir, openSftp,
                   clock>>

\* lines 203-210: the temporary query file is written (copyfile raises when
\* the query file cannot be read), then put(tmp_filename, tmp_filename) starts
HivePrepare ==
    /\ pc = "in_hive" /\ hv.pc = "prepare"
    /\ \E t \in clock..MaxTime, copied \in BOOLEAN :
        /\ clock' = t
        /\ IF IsQueryFile(hv.query) /\ ~copied
           THEN /\ Raise("IOError")
                /\ hv' = [hv EXCEPT !.tmp_filename = TmpFilename(t), !.pc = "raise"]
                /\ UNCHANGED xf
           ELSE /\ UNCHANGED err
                /\ hv' = [hv EXCEPT !.tmp_filename = TmpFilename(t), !.pc = "put"]
                /\ xf' = Frame("put", TmpFilename(t), TmpFilename(t), FALSE)
    /\ UNCHANGED <<state, trace, kinit, secret, ssh, remote_home_dir, pc, call,
                   events, openSftp, out, errW, ret>>

\* lines 212-231: after put returned, the command runs, then get starts when
\* an output file was asked for
HiveExec ==
    /\ pc = "in_hive" /\ hv.pc = "put" /\ xf.pc = "return"
    /\ \E reply \in Replies :
        /\ ExecEffects(ExecCommand(HiveCmd(hv.tmp_filename, hv.remove_blank_top_line,
                                           hv.output_filename), <<>>, FALSE),
                       FALSE, reply)
        /\ IF reply.fail
           THEN /\ Raise("SSHException")
                /\ hv' = [hv EXCEPT !.pc = "raise"]
                /\ UNCHANGED xf
           ELSE /\ UNCHANGED err
                /\ IF HiveDownloads(hv.output_filename)
                   THEN /\ hv' = [hv EXCEPT !.pc = "get"]
                        /\ xf' = Frame("get", hv.output_filename,
                                       TmpOutputFilename(hv.tmp_filename), FALSE)
                   ELSE /\ hv' = [hv EXCEPT !.pc = "return"]
                        /\ UNCHANGED xf
    /\ UNCHANGED <<state, trace, kinit, secret, ssh, remote_home_dir, pc, call,
                   openSftp, ret, clock>>

\* line 231: get returned, hive returns
HiveAfterGet ==
    /\ pc = "in_hive" /\ hv.pc = "get" /\ xf.pc = "return"
    /\ hv' = [hv EXCEPT !.pc = "return"]
    /\ UNCHANGED <<state, trace, kinit, secret, ssh, remote_home_dir, pc, call,
                   xf, events, openSftp, out, errW, ret, err, clock>>

\* an exception of put or get propagates through hive
HivePropagate ==
    /\ pc = "in_hive" /\ hv.pc \in {"put", "get"} /\ xf.pc = "raise"
    /\ hv' = [hv EXCEPT !.pc = "raise"]
    /\ UNCHANGED <<state, trace, kinit, secret, ssh, remote_home_dir, pc, call,
                   xf, events, openSftp, out, errW, ret, err, clock>>

----------------------------------------------------------------------------
(* Issho.spark_submit *)

\* the shorthand parameters in the order of their cleaned option names
ShorthandOrder == <<"class", "driver_class_path", "files", "jars", "master">>

ShorthandKeys == {ShorthandOrder[i] : i \in 1..Len(ShorthandOrder)}

\* line 257: assert application
SparkAssertFails_never(application) == FALSE

SparkAssertFails(application) == ~Truthy(application)

\* lines 258-273: the shorthand parameters that are set override spark_options
SparkMerge(spark_options, shorthand) ==
    LET set == {k \in ShorthandKeys : Truthy(shorthand[k])} IN
    [k \in DOMAIN spark_options \cup set |->
        IF k \in set THEN shorthand[k] ELSE spark_options[k]]

RECURSIVE SparkRender(_, _)
\* lines 275-281: "--<option> <value>" sorted by option; the "--" is put
\* in front of the option name by issho.helpers.clean_spark_options
SparkRender(options, i) ==
    IF i > Len(ShorthandOrder) THEN <<>>
    ELSE (IF ShorthandOrder[i] \in DOMAIN options
          THEN << <<"--", ShorthandOrder[i]>>, options[ShorthandOrder[i]] >>
          ELSE <<>>)
         \o SparkRender(options, i + 1)

\* lines 282-284
SparkCmd(options, application, application_args) ==
    << <<"spark-submit">> >> \o SparkRender(options, 1)
    \o <<application, application_args>>

NoOptions == [k \in {} |-> <<>>]

SparkOptionSets == {NoOptions, [k \in {"master"} |-> <<"m0">>]}

CallSparkSubmit ==
    /\ pc = "idle"
    /\ \E spark_options \in SparkOptionSets,
          master \in {Empty, <<"m1">>}, jars \in {Empty, <<"j1">>},
          application_class \in {Empty, <<"C">>},
          application \in {None, Empty, <<"app", ".", "jar">>},
          application_args \in {Empty, <<"arg">>}, reply \in Replies :
        LET shorthand == [k \in ShorthandKeys |->
                            CASE k = "class" -> application_class
                              [] k = "jars" -> jars
                              [] k = "master" -> master
                              [] OTHER -> Empty]
            cmd == ExecCommand(SparkCmd(SparkMerge(spark_options, shorthand),
                                        application, application_args),
                               <<>>, FALSE)
        IN
        /\ call' = [op |-> "spark_submit", spark_options |-> spark_options,
                    master |-> master, jars |-> jars,
                    application_class |-> application_class,
                    application |-> application,
                    application_args |-> application_args]
        /\ ret' = <<>>
        /\ IF SparkAssertFails(application)
           THEN /\ err' = "AssertionError"
                /\ events' = <<>>
                /\ out' = <<>>
                /\ errW' = <<>>
           ELSE /\ events' = <<ExecEvent(cmd, reply)>>
                /\ out' = IF reply.fail THEN <<>> ELSE ExecPrinted(FALSE, reply)
                /\ errW' = IF reply.fail THEN <<>> ELSE ExecStderr(reply)
                /\ err' = IF reply.fail THEN "SSHException" ELSE "none"
    /\ pc' = "in_spark_submit"
    /\ UNCHANGED <<state, trace, kinit, secret, ssh, remote_home_dir, xf, hv,
                   openSftp, clock>>

----------------------------------------------------------------------------
(* The call returns or raises to the caller *)

Finished ==
    CASE pc \in {"constructed", "in_exec", "in_spark_submit"} -> TRUE
      [] pc \in {"in_get", "in_put"} -> xf.pc \in {"return", "raise"}
      [] pc = "in_hive" -> hv.pc \in {"return", "raise"}
      [] OTHER -> FALSE

\* the caller has the session and no call is in progress; what was observed
\* of the finished call is dropped
Return ==
    /\ Finished
    /\ pc' = "idle"
    /\ call' = NoCall
    /\ xf' = NoXfer
    /\ hv' = NoHive
    /\ events' = <<>>
    /\ out' = <<>>
    /\ errW' = <<>>
    /\ ret' = <<>>
    /\ err' = "none"
    /\ UNCHANGED <<state, trace, kinit, secret, ssh, remote_home_dir, openSftp,
                   clock>>

----------------------------------------------------------------------------
(* Specification *)

Next ==
    \/ Connect
    \/ Kinit
    \/ HomeDir
    \/ CallExec
    \/ CallGet
    \/ CallPut
    \/ GetResolve
    \/ GetBridge
    \/ XferOpen
    \/ GetTransfer
    \/ PutTransfer
    \/ XferClose
    \/ GetCleanup
    \/ PutResolve
    \/ PutBridge
    \/ PutCleanup
    \/ CallHive
    \/ HivePrepare
    \/ HiveExec
    \/ HiveAfterGet
    \/ HivePropagate
    \/ CallSparkSubmit
    \/ Return

Spec == Init /\ [][Next]_vars

TypeOK ==
    /\ state \in {"Unconnected", "Connected", "Authenticated", "Ready"}
    /\ openSftp \in 0..1
    /\ clock \in 0..MaxTime

----------------------------------------------------------------------------
(* Properties *)

IsPrefix(s, t) == Len(s) <= Len(t) /\ s = SubSeq(t, 1, Len(s))

Kinds(ev) == [i \in 1..Len(ev) |-> ev[i].kind]

FullLifecycle == <<"Unconnected", "Connected", "Authenticated", "Ready">>

Lifecycle(k) ==
    IF k THEN FullLifecycle ELSE <<"Unconnected", "Connected", "Ready">>

\* C1 as stated: every construction that reaches Ready went through
\* Unconnected, Connected, Authenticated, Ready in that order, whatever the
\* authentication flag.
C1_AlwaysAuthenticated == state = "Ready" => trace = FullLifecycle

\* C1 amended: the lifecycle is always a prefix of Unconnected, Connected,
\* Authenticated, Ready when authentication was asked for and of Unconnected,
\* Connected, Ready when it was not; a session that is Ready has gone through
\* all of it.
C1_Lifecycle ==
    /\ IsPrefix(trace, Lifecycle(kinit))
    /\ state = trace[Len(trace)]
    /\ state = "Ready" => trace = Lifecycle(kinit)

C1_ReadyWithoutKinit ==
    state = "Ready" /\ ~kinit /\ trace = <<"Unconnected", "Connected", "Ready">>

\* a get or put of the caller needs staging
Staged ==
    call.hadoop \/ (call.remotepath # None /\ StartsWithHdfs(call.remotepath))

\* C2: a get that needs staging (flag set or hdfs prefix) issues the bridge
\* copy-in, then the byte transfer, then the rm of the temporary path, in
\* that order and nothing else; a get that returns has issued all three, and
\* after a failed byte transfer no rm is issued.
C2_GetOrder ==
    (call.op = "get" /\ Staged) =>
        /\ IsPrefix(Kinds(events), <<"exec", "sftp_get", "exec">>)
        /\ Len(events) >= 1 =>
              events[1].cmd = HadoopCommand(<<"get -f">>, <<call.remotepath, xf.tmp_path>>)
        /\ Len(events) >= 2 => events[2].remotepath = xf.tmp_path
        /\ Len(events) >= 2 /\ ~events[2].ok => Len(events) = 2
        /\ Len(events) >= 3 => events[3].cmd = RmCommand(xf.tmp_path)
        /\ xf.pc = "return" => Len(events) = 3

C2_PrefixForcedGetDone ==
    /\ call.op = "get" /\ ~call.hadoop /\ StartsWithHdfs(call.remotepath)
    /\ xf.pc = "return" /\ Len(events) = 3

C4_MissingCredential ==
    (kinit /\ ~Truthy(secret)) =>
        /\ events = <<>>
        /\ state \in {"Unconnected", "Connected"}
        /\ pc \in {"init_connect", "init_kinit", "failed"}
        /\ (pc = "failed" /\ ssh) => err = "OSError"

C4_FailedForCredential ==
    kinit /\ secret = None /\ ssh /\ pc = "failed" /\ err = "OSError"

\* C5: spark_submit with an empty or absent application fails on the
\* assertion and the connection receives no command, whatever the other
\* parameters.
C5_NoApplication ==
    (call.op = "spark_submit" /\ ~Truthy(call.application)) =>
        err = "AssertionError" /\ events = <<>>

C5_RejectedSubmission ==
    /\ call.op = "spark_submit" /\ call.application = Empty
    /\ call.master = <<"m1">> /\ call.application_class = <<"C">>
    /\ err = "AssertionError"

\* the byte transfer of the call was made with these paths
Transferred(localpath, remotepath) ==
    \E i \in 1..Len(events) :
        /\ events[i].kind \in {"sftp_get", "sftp_put"}
        /\ events[i].localpath = localpath
        /\ events[i].remotepath = remotepath

\* C6: a get without local path or a put without remote path, staging flag
\* false, that ends without a transport failure has made its byte transfer
\* with the omitted side equal to the last segment of the given side.
C6_OmittedSideDefaults ==
    /\ (/\ call.op = "get" /\ ~call.hadoop /\ call.localpath = None
        /\ ~StartsWithHdfs(call.remotepath)
        /\ xf.pc \in {"return", "raise"} /\ err # "SSHException")
       => Transferred(PathName(call.remotepath),
                      Replace(call.remotepath, "~", remote_home_dir))
    /\ (/\ call.op = "put" /\ ~call.hadoop /\ call.remotepath = None
        /\ xf.pc \in {"return", "raise"} /\ err # "SSHException")
       => Transferred(expanduser(call.localpath), PathName(call.localpath))

Tokens(s) == {s[i] : i \in 1..Len(s)}

\* C7: an exec that returns has written every stderr line, in order, to the
\* error channel; it returns the stdout lines concatenated in arrival order
\* when capture_output is set and the empty string otherwise, and no text
\* of a stderr line is in the result.
C7_ExecStreams ==
    (call.op = "exec" /\ pc = "in_exec" /\ ~call.reply.fail) =>
        /\ errW = Flatten(call.reply.stderr)
        /\ ret = IF call.capture_output THEN Flatten(call.reply.stdout) ELSE <<>>
        /\ \A i \in 1..Len(call.reply.stderr) :
              Tokens(call.reply.stderr[i]) \cap Tokens(ret) \subseteq Whitespace

C7_BgCaptured ==
    /\ call.op = "exec" /\ call.bg /\ call.capture_output
    /\ call.reply.stdout = << <<"o2", "\n">>, <<"o1", "\n">> >>
    /\ Len(call.reply.stderr) = 2
    /\ ret = <<"o2", "\n", "o1", "\n">>

\* C8: at most one SFTP channel is open, one is open only while the byte
\* transfer of a get or put is under way, and none is open once the call
\* has returned or raised.
C8_ChannelScoped ==
    /\ openSftp \in {0, 1}
    /\ openSftp = 1 <=> xf.pc \in {"transfer", "close"}

C8_ClosedAfterFailure ==
    xf.pc = "raise" /\ xf.failed /\ err = "IOError" /\ openSftp = 0

HasRedirect(cmd, tmp_output_filename) ==
    \E i \in 1..Len(cmd) : cmd[i] = <<">", " ">> \o tmp_output_filename

\* C9: hive uploads the temporary query file, then runs exactly one command,
\* then downloads the redirected output file to the requested local path, in
\* that order; a hive that returns has downloaded if and only if an output
\* path was given, and its command redirects if and only if one was given.
C9_HiveOrder ==
    call.op = "hive" =>
        LET wanted == Truthy(call.output_filename)
            tmp_output == TmpOutputFilename(hv.tmp_filename)
        IN
        /\ IsPrefix(Kinds(events),
                    <<"sftp_put", "exec">>
                    \o (IF wanted THEN <<"sftp_get">> ELSE <<>>))
        /\ Len(events) >= 1 =>
              /\ events[1].localpath = hv.tmp_filename
              /\ events[1].remotepath = hv.tmp_filename
        /\ Len(events) >= 2 => (HasRedirect(events[2].cmd, tmp_output) <=> wanted)
        /\ Len(events) >= 3 =>
              /\ events[3].remotepath = tmp_output
              /\ events[3].localpath = expanduser(call.output_filename)
        /\ hv.pc = "return" => Len(events) = IF wanted THEN 3 ELSE 2

C9_HiveWithOutputDone ==
    /\ call.op = "hive" /\ hv.pc = "return"
    /\ Truthy(call.output_filename) /\ Len(events) = 3

IsRm(e) == e.kind = "exec" /\ e.cmd[1] = <<"rm">>

\* C10: in a get or put, an rm is issued only under staging, its target is
\* the temporary path generated by the call and not the remote path passed
\* in; without staging the call issues no remote command at all.
C10_RmTarget ==
    call.op \in {"get", "put"} =>
        /\ \A i \in 1..Len(events) :
              IsRm(events[i]) =>
                  /\ Staged
                  /\ xf.tmp_path # <<>>
                  /\ events[i].cmd = << <<"rm">>, xf.tmp_path >>
                  /\ events[i].cmd[2] # call.remotepath
        /\ ~Staged => \A i \in 1..Len(events) : events[i].kind # "exec"

C10_RmIssued ==
    /\ call.op = "put" /\ Len(events) = 3 /\ IsRm(events[3])
    /\ events[3].cmd[2] = xf.tmp_path

====
